---- MODULE Spec2Model ----
(***************************************************************************)
(* Saving and loading models across devices (save_load_across_devices).   *)
(*                                                                         *)
(* The notebook defines one network, Net, constructs it once (net), and    *)
(* shows recipes built from four framework calls: torch.save of a          *)
(* state_dict, torch.load with or without map_location, load_state_dict    *)
(* into a fresh Net, and .to(device).  The model keeps, per tensor, its    *)
(* shape, an abstraction of its values and the device it resides on.       *)
(*                                                                         *)
(* Two specifications share the operations:                                *)
(*   Spec        the notebook's code cells executed top to bottom;         *)
(*   SpecRecipes the recipes applied in any order, to a net that may have  *)
(*               been placed on any available device or wrapped in         *)
(*               DataParallel, with any target device.                     *)
(***************************************************************************)
EXTENDS Integers, Sequences, FiniteSets, TLC

VARIABLES
    numGpus,       \* CUDA devices the runtime offers (torch.cuda.device_count())
    net,           \* the notebook's net: [bound, wrapped, device_ids, params]
    model,         \* the notebook's model: [bound, params]
    file,          \* the file at PATH: [exists, content]
    sd,            \* value of the latest torch.load(...) expression: [bound, map]
    device,        \* the notebook's device variable
    map_location,  \* map_location argument of the latest torch.load
    my_tensor,     \* an input tensor of the caller
    to_result,     \* value of the latest my_tensor.to(device) expression
    last,          \* the call executed last
    err,           \* the exception raised, "none" while none was
    pc             \* position in the notebook (Spec); "recipes" under SpecRecipes

vars == << numGpus, net, model, file, sd, device, map_location,
           my_tensor, to_result, last, err, pc >>

\* ---------------------------------------------------------------- bounds

\* Largest number of CUDA devices considered.
MaxGpus == 2

\* Number of distinct random initialisations a Net() construction can draw.
MaxSeed == 2

Seeds == 1..MaxSeed

\* --------------------------------------------------------------- devices

Cpu == [type |-> "cpu", index |-> -1]

Cuda(i) == [type |-> "cuda", index |-> i]

\* torch.device("cuda"): a CUDA device with no index given.
CudaDefault == [type |-> "cuda", index |-> -1]

\* No map_location argument.
NoMap == [type |-> "none", index |-> -1]

\* Devices a tensor can reside on with n CUDA devices.
TensorDevices(n) == {Cpu} \cup {Cuda(i) : i \in 0..(n - 1)}

\* Device arguments a caller may write, available or not.
DeviceArgs == {Cpu, CudaDefault} \cup {Cuda(i) : i \in 0..(MaxGpus - 1)}

\* A CUDA device without index is the current CUDA device, device 0.
Resolve(d) == IF d.type = "cuda" /\ d.index = -1 THEN Cuda(0) ELSE d

\* Whether the runtime with n CUDA devices can place a tensor on d.
Available(d, n) == d.type = "cpu" \/ (d.type = "cuda" /\ Resolve(d).index < n)

\* ------------------------------------------------------------ the network

\* Parameter names of Net, in registration order (pool has no parameters).
NetKeyOrder ==
    << "conv1.weight", "conv1.bias", "conv2.weight", "conv2.bias",
       "fc1.weight", "fc1.bias", "fc2.weight", "fc2.bias",
       "fc3.weight", "fc3.bias" >>

NetKeys == {NetKeyOrder[i] : i \in 1..Len(NetKeyOrder)}

KeyIndex(k) == CHOOSE i \in 1..Len(NetKeyOrder) : NetKeyOrder[i] = k

\* Shapes: Conv2d(in, out, k) has weight out x in x k x k and bias out;
\* Linear(in, out) has weight out x in and bias out.
NetShape(k) ==
    CASE k = "conv1.weight" -> << 6, 3, 5, 5 >>
      [] k = "conv1.bias"   -> << 6 >>
      [] k = "conv2.weight" -> << 16, 6, 5, 5 >>
      [] k = "conv2.bias"   -> << 16 >>
      [] k = "fc1.weight"   -> << 120, 16 * 5 * 5 >>
      [] k = "fc1.bias"     -> << 120 >>
      [] k = "fc2.weight"   -> << 84, 120 >>
      [] k = "fc2.bias"     -> << 84 >>
      [] k = "fc3.weight"   -> << 10, 84 >>
      [] k = "fc3.bias"     -> << 10 >>

\* The values of a tensor are abstracted to one number, distinct for every
\* pair of random initialisation and parameter name.
InitValue(seed, k) == seed * (Len(NetKeyOrder) + 1) + KeyIndex(k)

\* Net(): every parameter randomly initialised, on the CPU.
NetParams(seed) ==
    [k \in NetKeys |->
        [shape |-> NetShape(k), val |-> InitValue(seed, k), device |-> Cpu]]

\* Names bound by the import cell.
ImportedNames == {"torch", "nn", "optim"}

\* ------------------------------------------------------- framework calls

EmptyMap == [k \in {} |-> 0]

\* nn.DataParallel registers the wrapped network as the submodule "module".
Prefixed(k) == "module." \o k

Unprefixed(pk) == CHOOSE k \in NetKeys : Prefixed(k) = pk

\* Mutant of ModuleStateDict: the keys of the wrapper are returned.
ModuleStateDictOfWrapper(n) ==
    [pk \in {Prefixed(k) : k \in NetKeys} |-> n.params[Unprefixed(pk)]]

\* module.state_dict() of a plain Net: its parameters by name.
ModuleStateDict(n) == [k \in NetKeys |-> n.params[k]]

\* net.state_dict(): of the wrapper when net is wrapped, else of the Net.
StateDict(n) ==
    IF n.wrapped
    THEN [pk \in {Prefixed(k) : k \in NetKeys} |-> n.params[Unprefixed(pk)]]
    ELSE ModuleStateDict(n)

\* torch.save(mapping, PATH): the file holds every tensor with the device it
\* was on as its location tag.
TorchSave(mapping) == [exists |-> TRUE, content |-> mapping]

\* Mutant of RestoreLocation: map_location is ignored.
RestoreLocationIgnoresMap(t, ml) == t.device

\* Device a stored tensor is restored to.
RestoreLocation(t, ml) == IF ml = NoMap THEN t.device ELSE Resolve(ml)

\* torch.load(PATH, map_location=ml) with n CUDA devices: [err, map].
TorchLoad(f, ml, n) ==
    IF ~f.exists
    THEN [err |-> "FileNotFoundError", map |-> EmptyMap]
    ELSE IF \E k \in DOMAIN f.content :
                ~Available(RestoreLocation(f.content[k], ml), n)
    THEN [err |-> "DeviceUnavailable", map |-> EmptyMap]
    ELSE [err |-> "none",
          map |-> [k \in DOMAIN f.content |->
                     [f.content[k] EXCEPT
                        !.device = RestoreLocation(f.content[k], ml)]]]

\* Keys of a strict load_state_dict that make it raise.
MissingKeys(params, mapping) == DOMAIN params \ DOMAIN mapping

UnexpectedKeys(params, mapping) == DOMAIN mapping \ DOMAIN params

SizeMismatch(params, mapping) ==
    {k \in DOMAIN params \cap DOMAIN mapping :
        params[k].shape # mapping[k].shape}

\* Mutant of LoadStateDict: strict=False, mismatching keys are skipped.
LoadStateDictNonStrict(params, mapping) ==
    [err |-> "none",
     params |-> [k \in DOMAIN params |->
                   IF k \in DOMAIN mapping /\ params[k].shape = mapping[k].shape
                   THEN [params[k] EXCEPT !.val = mapping[k].val]
                   ELSE params[k]]]

\* module.load_state_dict(mapping), strict: every parameter whose key and
\* shape match is overwritten in place (param.copy_, the parameter keeps its
\* device); any missing, unexpected or mis-shaped key raises afterwards.
LoadStateDict(params, mapping) ==
    [err |-> IF MissingKeys(params, mapping) = {}
                /\ UnexpectedKeys(params, mapping) = {}
                /\ SizeMismatch(params, mapping) = {}
             THEN "none" ELSE "KeyMismatch",
     params |-> [k \in DOMAIN params |->
                   IF k \in DOMAIN mapping /\ params[k].shape = mapping[k].shape
                   THEN [params[k] EXCEPT !.val = mapping[k].val]
                   ELSE params[k]]]

\* Mutant of ModuleTo: an unavailable device falls back to the CPU.
ModuleToFallsBack(params, d, n) ==
    [err |-> "none",
     params |-> [k \in DOMAIN params |->
                   [params[k] EXCEPT
                      !.device = IF Available(d, n) THEN Resolve(d) ELSE Cpu]]]

\* module.to(d) with n CUDA devices, in place: [err, params].
ModuleTo(params, d, n) ==
    IF ~Available(d, n)
    THEN [err |-> "DeviceUnavailable", params |-> params]
    ELSE [err |-> "none",
          params |-> [k \in DOMAIN params |->
                        [params[k] EXCEPT !.device = Resolve(d)]]]

\* Devices the parameters of a module are on.
ParamDevices(params) == {params[k].device : k \in DOMAIN params}

\* An input tensor of the caller: the shape of one image batch for conv1.
InputTensor(d, id) ==
    [shape |-> << 1, 3, 32, 32 >>, val |-> 0, device |-> d, id |-> id]

\* Identities a tensor object can have; a new tensor gets one not in use.
FreshId(used) == CHOOSE i \in 0..2 : i \notin used

\* t.to(d) with n CUDA devices: [err, tensor].  A tensor already on d is
\* returned itself; otherwise the result is a new tensor with a copy of the
\* values on d.  t is not modified.
TensorTo(t, d, n, fresh) ==
    IF ~Available(d, n)
    THEN [err |-> "DeviceUnavailable", tensor |-> t]
    ELSE IF Resolve(d) = t.device
    THEN [err |-> "none", tensor |-> t]
    ELSE [err |-> "none",
          tensor |-> [t EXCEPT !.device = Resolve(d), !.id = fresh]]

\* Net.forward(x): the first expression evaluated is F.relu, before conv1 is
\* applied; with F bound, conv1 raises when x is not on its weight's device.
Forward(params, x) ==
    IF "F" \notin ImportedNames
    THEN "NameError"
    ELSE IF ParamDevices(params) # {x.device}
    THEN "DeviceMismatch"
    ELSE "none"

\* ------------------------------------------------------------ operations
\* Every operation runs only while no exception has been raised: nothing in
\* the notebook catches one.  next is the position reached when it succeeds.

Goto(next, e) == pc' = IF e = "none" THEN next ELSE pc

\* torch.save(net.state_dict(), PATH)
Save(next) ==
    /\ err = "none" /\ net.bound
    /\ file' = TorchSave(StateDict(net))
    /\ last' = "torch.save"
    /\ err' = "none"
    /\ Goto(next, "none")
    /\ UNCHANGED << numGpus, net, model, sd, device, map_location,
                    my_tensor, to_result >>

\* torch.save(net.module.state_dict(), PATH): only a DataParallel wrapper
\* has the attribute module.
SaveModule(next) ==
    /\ err = "none" /\ net.bound
    /\ LET e == IF net.wrapped THEN "none" ELSE "AttributeError" IN
        /\ file' = IF e = "none" THEN TorchSave(ModuleStateDict(net)) ELSE file
        /\ err' = e
        /\ Goto(next, e)
    /\ last' = "save_module"
    /\ UNCHANGED << numGpus, net, model, sd, device, map_location,
                    my_tensor, to_result >>

\* device = torch.device(d): constructing a device object never fails.
SetDevice(d, next) ==
    /\ err = "none"
    /\ device' = d
    /\ last' = "torch.device"
    /\ err' = "none"
    /\ Goto(next, "none")
    /\ UNCHANGED << numGpus, net, model, file, sd, map_location,
                    my_tensor, to_result >>

\* model = Net()
NewModel(next) ==
    /\ err = "none"
    /\ \E s \in Seeds : model' = [bound |-> TRUE, params |-> NetParams(s)]
    /\ last' = "Net"
    /\ err' = "none"
    /\ Goto(next, "none")
    /\ UNCHANGED << numGpus, net, file, sd, device, map_location,
                    my_tensor, to_result >>

\* torch.load(PATH, map_location=ml), or torch.load(PATH) for ml = NoMap
Load(ml, next) ==
    /\ err = "none"
    /\ LET r == TorchLoad(file, ml, numGpus) IN
        /\ sd' = IF r.err = "none" THEN [bound |-> TRUE, map |-> r.map] ELSE sd
        /\ err' = r.err
        /\ Goto(next, r.err)
    /\ map_location' = ml
    /\ last' = "torch.load"
    /\ UNCHANGED << numGpus, net, model, file, device, my_tensor, to_result >>

\* model.load_state_dict(<the mapping torch.load returned>)
LoadModel(next) ==
    /\ err = "none" /\ model.bound /\ sd.bound
    /\ LET r == LoadStateDict(model.params, sd.map) IN
        /\ model' = [model EXCEPT !.params = r.params]
        /\ err' = r.err
        /\ Goto(next, r.err)
    /\ last' = "load_state_dict"
    /\ UNCHANGED << numGpus, net, file, sd, device, map_location,
                    my_tensor, to_result >>

\* Mutant of ModelTo: net.to(device) is called, not model.to(device).
NetTo(next) ==
    /\ err = "none" /\ net.bound
    /\ LET r == ModuleTo(net.params, device, numGpus) IN
        /\ net' = [net EXCEPT !.params = r.params]
        /\ err' = r.err
        /\ Goto(next, r.err)
    /\ last' = "model.to"
    /\ UNCHANGED << numGpus, model, file, sd, device, map_location,
                    my_tensor, to_result >>

\* model.to(device)
ModelTo(next) ==
    /\ err = "none" /\ model.bound
    /\ LET r == ModuleTo(model.params, device, numGpus) IN
        /\ model' = [model EXCEPT !.params = r.params]
        /\ err' = r.err
        /\ Goto(next, r.err)
    /\ last' = "model.to"
    /\ UNCHANGED << numGpus, net, file, sd, device, map_location,
                    my_tensor, to_result >>

\* Mutant of TensorToCall: the call moves my_tensor in place, as
\* module.to does with a module.
TensorToInPlace(next) ==
    /\ err = "none"
    /\ LET r == TensorTo(my_tensor, device, numGpus,
                         FreshId({my_tensor.id, to_result.id})) IN
        /\ my_tensor' = IF r.err = "none" THEN r.tensor ELSE my_tensor
        /\ to_result' = IF r.err = "none" THEN r.tensor ELSE to_result
        /\ err' = r.err
        /\ Goto(next, r.err)
    /\ last' = "tensor.to"
    /\ UNCHANGED << numGpus, net, model, file, sd, device, map_location >>

\* my_tensor.to(device), the result not assigned to my_tensor
TensorToCall(next) ==
    /\ err = "none"
    /\ LET r == TensorTo(my_tensor, device, numGpus,
                         FreshId({my_tensor.id, to_result.id})) IN
        /\ to_result' = IF r.err = "none" THEN r.tensor ELSE to_result
        /\ err' = r.err
        /\ Goto(next, r.err)
    /\ last' = "tensor.to"
    /\ UNCHANGED << numGpus, net, model, file, sd, device, map_location,
                    my_tensor >>

\* my_tensor = my_tensor.to(device)
TensorAssign(next) ==
    /\ err = "none"
    /\ LET r == TensorTo(my_tensor, device, numGpus,
                         FreshId({my_tensor.id, to_result.id})) IN
        /\ my_tensor' = IF r.err = "none" THEN r.tensor ELSE my_tensor
        /\ err' = r.err
        /\ Goto(next, r.err)
    /\ last' = "tensor.assign"
    /\ UNCHANGED << numGpus, net, model, file, sd, device, map_location,
                    to_result >>

\* model(my_tensor)
Invoke(next) ==
    /\ err = "none" /\ model.bound
    /\ LET e == Forward(model.params, my_tensor) IN
        /\ err' = e
        /\ Goto(next, e)
    /\ last' = "forward"
    /\ UNCHANGED << numGpus, net, model, file, sd, device, map_location,
                    my_tensor, to_result >>

\* ------------------------------------------------- the notebook, in order

Unbound == [bound |-> FALSE, params |-> EmptyMap]

NoFile == [exists |-> FALSE, content |-> EmptyMap]

\* State before the first cell runs, on a runtime with any number of GPUs:
\* no name is bound yet (device holds NoMap until it is assigned) and the
\* file at PATH does not exist.  A cell that raises ends the run.
Init ==
    /\ numGpus \in 0..MaxGpus
    /\ net = [bound |-> FALSE, wrapped |-> FALSE, device_ids |-> 0,
              params |-> EmptyMap]
    /\ model = Unbound
    /\ file = NoFile
    /\ sd = [bound |-> FALSE, map |-> EmptyMap]
    /\ device = NoMap
    /\ map_location = NoMap
    /\ my_tensor = InputTensor(Cpu, 0)
    /\ to_result = my_tensor
    /\ last = "start"
    /\ err = "none"
    /\ pc = "magic"

\* %matplotlib inline
Magic ==
    /\ pc = "magic" /\ err = "none"
    /\ pc' = "import"
    /\ last' = "magic"
    /\ UNCHANGED << numGpus, net, model, file, sd, device, map_location,
                    my_tensor, to_result, err >>

\* import torch, torch.nn as nn, torch.optim as optim
Import ==
    /\ pc = "import" /\ err = "none"
    /\ pc' = "net"
    /\ last' = "import"
    /\ UNCHANGED << numGpus, net, model, file, sd, device, map_location,
                    my_tensor, to_result, err >>

\* class Net ...; net = Net(); print(net)
ConstructNet ==
    /\ pc = "net" /\ err = "none"
    /\ \E s \in Seeds :
         net' = [bound |-> TRUE, wrapped |-> FALSE, device_ids |-> 0,
                 params |-> NetParams(s)]
    /\ pc' = "r3.save"
    /\ last' = "Net"
    /\ UNCHANGED << numGpus, model, file, sd, device, map_location,
                    my_tensor, to_result, err >>

\* Recipe 3: save on GPU, load on CPU
R3Save == pc = "r3.save" /\ Save("r3.device")

R3Device == pc = "r3.device" /\ SetDevice(Cpu, "r3.model")

R3Model == pc = "r3.model" /\ NewModel("r3.load")

R3Load == pc = "r3.load" /\ Load(device, "r3.load_state_dict")

R3LoadModel == pc = "r3.load_state_dict" /\ LoadModel("r4.save")

\* Recipe 4: save on GPU, load on GPU
R4Save == pc = "r4.save" /\ Save("r4.device")

R4Device == pc = "r4.device" /\ SetDevice(CudaDefault, "r4.model")

R4Model == pc = "r4.model" /\ NewModel("r4.load")

R4Load == pc = "r4.load" /\ Load(NoMap, "r4.load_state_dict")

R4LoadModel == pc = "r4.load_state_dict" /\ LoadModel("r4.to")

R4To == pc = "r4.to" /\ ModelTo("r5.save")

\* Recipe 5: save on CPU, load on GPU
R5Save == pc = "r5.save" /\ Save("r5.device")

R5Device == pc = "r5.device" /\ SetDevice(CudaDefault, "r5.model")

R5Model == pc = "r5.model" /\ NewModel("r5.load")

R5Load == pc = "r5.load" /\ Load(Cuda(0), "r5.load_state_dict")

R5LoadModel == pc = "r5.load_state_dict" /\ LoadModel("r5.to")

R5To == pc = "r5.to" /\ ModelTo("r6.save")

\* Recipe 6: saving DataParallel models
R6Save == pc = "r6.save" /\ SaveModule("end")

Next ==
    \/ Magic \/ Import \/ ConstructNet
    \/ R3Save \/ R3Device \/ R3Model \/ R3Load \/ R3LoadModel
    \/ R4Save \/ R4Device \/ R4Model \/ R4Load \/ R4LoadModel \/ R4To
    \/ R5Save \/ R5Device \/ R5Model \/ R5Load \/ R5LoadModel \/ R5To
    \/ R6Save

Spec == Init /\ [][Next]_vars

\* ------------------------------------------ the recipes, in any order

\* A net that was constructed with any initialisation, placed on any device
\* of the runtime and possibly wrapped in DataParallel, which by default
\* replicates over all GPUs of the runtime.
InitRecipes ==
    /\ numGpus \in 0..MaxGpus
    /\ \E s \in Seeds, d \in TensorDevices(numGpus), w \in BOOLEAN :
         net = [bound |-> TRUE, wrapped |-> w,
                device_ids |-> IF w THEN numGpus ELSE 0,
                params |-> ModuleTo(NetParams(s), d, numGpus).params]
    /\ model = Unbound
    /\ file = NoFile
    /\ sd = [bound |-> FALSE, map |-> EmptyMap]
    /\ device = NoMap
    /\ map_location = NoMap
    /\ my_tensor = InputTensor(Cpu, 0)
    /\ to_result = my_tensor
    /\ last = "start"
    /\ err = "none"
    /\ pc = "recipes"

DoSave == Save("recipes")

DoSaveModule == SaveModule("recipes")

DoSetDevice == \E d \in DeviceArgs : SetDevice(d, "recipes")

DoNewModel == NewModel("recipes")

DoLoad == \E ml \in DeviceArgs \cup {NoMap} : Load(ml, "recipes")

DoLoadModel == LoadModel("recipes")

DoModelTo == device # NoMap /\ ModelTo("recipes")

DoInvoke == Invoke("recipes")

NextRecipes ==
    \/ DoSave \/ DoSaveModule \/ DoSetDevice \/ DoNewModel \/ DoLoad
    \/ DoLoadModel \/ DoModelTo \/ DoInvoke

SpecRecipes == InitRecipes /\ [][NextRecipes]_vars

\* --------------------------------------- input tensors and the model

\* A fresh model and an input tensor created on the CPU.
InitInputs ==
    /\ numGpus \in 0..MaxGpus
    /\ net = [bound |-> FALSE, wrapped |-> FALSE, device_ids |-> 0,
              params |-> EmptyMap]
    /\ \E s \in Seeds : model = [bound |-> TRUE, params |-> NetParams(s)]
    /\ file = NoFile
    /\ sd = [bound |-> FALSE, map |-> EmptyMap]
    /\ device = NoMap
    /\ map_location = NoMap
    /\ my_tensor = InputTensor(Cpu, 0)
    /\ to_result = my_tensor
    /\ last = "start"
    /\ err = "none"
    /\ pc = "inputs"

InSetDevice == \E d \in DeviceArgs : SetDevice(d, "inputs")

InModelTo == device # NoMap /\ ModelTo("inputs")

InTensorTo == device # NoMap /\ TensorToCall("inputs")

InTensorAssign == device # NoMap /\ TensorAssign("inputs")

InInvoke == Invoke("inputs")

NextInputs ==
    \/ InSetDevice \/ InModelTo \/ InTensorTo \/ InTensorAssign \/ InInvoke

SpecInputs == InitInputs /\ [][NextInputs]_vars

\* ---------------------------------------------------------------- claims

\* C2: a load given map_location returns every tensor on the requested
\* device, whatever device it was saved from.
C2_MapLocation ==
    (last = "torch.load" /\ err = "none" /\ map_location # NoMap)
        => \A k \in DOMAIN sd.map : sd.map[k].device = Resolve(map_location)

\* C2 witness: tensors saved from a GPU, loaded with target CPU.
C2_Witness ==
    /\ last = "torch.load" /\ err = "none" /\ map_location = Cpu
    /\ \A k \in DOMAIN file.content : file.content[k].device = Cuda(0)
    /\ \A k \in DOMAIN sd.map : sd.map[k].device = Cpu

\* C4 (as claimed): load_state_dict leaves the model on the device it was
\* on, and invoking the model on an input on another device than its
\* parameters fails with a device mismatch error.
C4_DeviceMismatch ==
    [][ /\ (last' = "load_state_dict" /\ err' = "none")
              => ParamDevices(model'.params) = ParamDevices(model.params)
        /\ (last' = "forward" /\ ParamDevices(model.params) # {my_tensor.device})
              => err' = "DeviceMismatch" ]_vars

\* C5: saving net.module.state_dict() of a DataParallel net writes a file
\* with the key set of the plain Net, which loads without error into a
\* fresh plain Net with any target device of the runtime.
C5_WrapperUnwrap ==
    (last = "save_module" /\ err = "none")
        => /\ DOMAIN file.content = NetKeys
           /\ \A ml \in TensorDevices(numGpus) \cup {NoMap}, s \in Seeds :
                LET r == TorchLoad(file, ml, numGpus) IN
                  /\ r.err = "none"
                  /\ LoadStateDict(NetParams(s), r.map).err = "none"

\* C5 witness: a net wrapped over several GPUs, saved through module, and
\* the file loaded into a plain model on the CPU.
C5_Witness ==
    /\ net.wrapped /\ net.device_ids > 1
    /\ file.exists /\ DOMAIN file.content = NetKeys
    /\ last = "load_state_dict" /\ err = "none"
    /\ ParamDevices(model.params) = {Cpu}

\* C6: a load raises when the file does not exist or when the keys of the
\* loaded mapping are not the model's parameter names, and no step follows
\* an exception.
C6_LoadFails ==
    [][ /\ err = "none"
        /\ (last' = "torch.load" /\ ~file.exists)
              => (err' = "FileNotFoundError" /\ sd' = sd)
        /\ (last' = "load_state_dict" /\ DOMAIN sd.map # DOMAIN model.params)
              => err' = "KeyMismatch" ]_vars

\* C6 witness: the wrapper's own state_dict was saved and its loading into
\* a plain model failed.
C6_Witness ==
    /\ last = "load_state_dict" /\ err = "KeyMismatch"
    /\ DOMAIN sd.map # NetKeys

\* C7 (as claimed): model.to(device) and a load with a target device raise
\* the device-unavailable error when the device is not available.
C7_AlwaysDeviceUnavailable ==
    [][ /\ (last' = "model.to" /\ ~Available(device, numGpus))
              => (err' = "DeviceUnavailable" /\ model' = model)
        /\ (last' = "torch.load" /\ map_location' # NoMap
                /\ ~Available(map_location', numGpus))
              => (err' = "DeviceUnavailable" /\ sd' = sd) ]_vars

\* C7 (amended): model.to(device) naming an unavailable device raises the
\* device-unavailable error and leaves the model where it was.  A load with
\* an unavailable target device raises too and returns no mapping: the
\* device-unavailable error when the file at PATH exists, FileNotFoundError
\* when it does not (the file is opened before any tensor is placed).
C7_DeviceUnavailable ==
    [][ /\ (last' = "model.to" /\ ~Available(device, numGpus))
              => (err' = "DeviceUnavailable" /\ model' = model)
        /\ (last' = "torch.load" /\ map_location' # NoMap
                /\ ~Available(map_location', numGpus))
              => /\ sd' = sd
                 /\ file.exists => err' = "DeviceUnavailable"
                 /\ ~file.exists => err' = "FileNotFoundError" ]_vars

\* C7 witness: on a runtime without GPUs, a load of the saved file with
\* target cuda:0 raised the device-unavailable error and bound no mapping.
C7_Witness ==
    /\ last = "torch.load" /\ err = "DeviceUnavailable"
    /\ file.exists /\ map_location = Cuda(0) /\ numGpus = 0
    /\ ~sd.bound

\* C8 (as claimed): with a GPU runtime no cell of the notebook raises.
C8_AllCellsRun == (numGpus >= 1) => err = "none"

\* C9 (as claimed): my_tensor.to(device) returns a new copy on the requested
\* device and leaves my_tensor unchanged.
C9_NewCopyAlways ==
    [][ (last' = "tensor.to" /\ err' = "none")
            => /\ to_result'.id # my_tensor.id
               /\ to_result'.device = Resolve(device)
               /\ to_result'.val = my_tensor.val
               /\ my_tensor' = my_tensor ]_vars

\* C9 (amended): my_tensor.to(device) returns a tensor on the requested
\* device with the values and shape of my_tensor, which is a new copy exactly
\* when the requested device is not the one my_tensor is on and my_tensor
\* itself otherwise; my_tensor is unchanged by the call, and changes only
\* when the caller assigns my_tensor = my_tensor.to(device), after which it
\* is on the requested device.
C9_ToReturnsNotOverwrites ==
    [][ /\ (last' = "tensor.to" /\ err' = "none")
            => /\ to_result'.id # my_tensor.id
                    <=> Resolve(device) # my_tensor.device
               /\ to_result'.device = Resolve(device)
               /\ to_result'.val = my_tensor.val
               /\ to_result'.shape = my_tensor.shape
               /\ my_tensor' = my_tensor
        /\ (my_tensor' # my_tensor) => last' = "tensor.assign"
        /\ (last' = "tensor.assign" /\ err' = "none")
            => my_tensor'.device = Resolve(device) ]_vars

\* C9 witness: my_tensor.to(cuda:0) was called on a CPU tensor; the result is
\* another tensor on cuda:0 and my_tensor is still the CPU tensor.
C9_Witness ==
    /\ last = "tensor.to" /\ err = "none"
    /\ my_tensor.device = Cpu
    /\ to_result.device = Cuda(0)
    /\ to_result.id # my_tensor.id

\* C10: in the notebook run, no step changes net once constructed, net is as
\* Net() made it (on the CPU), and at every load the file at PATH holds
\* exactly net's parameter state: keys, values and devices.
C10_FileHoldsNet ==
    [][ /\ net.bound => net' = net
        /\ net.bound => \E s \in Seeds : net.params = NetParams(s)
        /\ last' = "torch.load"
              => (file.exists /\ file.content = StateDict(net)) ]_vars

\* C10 witness: the load of recipe 5 has run.
C10_Witness ==
    /\ pc = "r5.load_state_dict" /\ last = "torch.load" /\ err = "none"
    /\ file.content = StateDict(net)

====
